---- MODULE Spec2Model ----
(***************************************************************************)
(* A model of pivotTable.go of excelize: AddPivotTable and its helpers.     *)
(*                                                                         *)
(* Strings that the code splits, trims or scans are sequences of tokens    *)
(* (a sheet name, "!", "$", ":", a column letter, a row number), so that    *)
(* strings.Split and strings.Replace are computed, not assumed.  Part      *)
(* paths are records [dir, base, n, ext], e.g. xl/pivotTables/pivotTable2   *)
(* .xml is [dir |-> "xl/pivotTables/", base |-> "pivotTable", n |-> 2,      *)
(* ext |-> ".xml"].  A Go error is a string, "" being nil.                  *)
(*                                                                         *)
(* A Go function whose body binds a local and then uses it several times   *)
(* is written as an operator that computes the local and hands it to a     *)
(* second operator holding the rest of the body.                           *)
(***************************************************************************)
EXTENDS Integers, Sequences, FiniteSets, TLC

VARIABLES
    f,        \* the File: [XLSX, PivotCaches, Relationships, ContentTypes, Sheet,
              \* sheetMap], and saved: the part paths saveFileList was called with
    pc,       \* position of the AddPivotTable call: "idle" before the first call,
              \* "returned" after a call, else the statement about to run
    call,     \* the locals of the running (or last) call
    err,      \* what the last finished call returned ("" is nil)
    pre,      \* the File as it was when the running (or last) call started
    nSucc,    \* how many calls have returned nil
    budget,   \* how many calls may still be made
    arg,      \* input of the function under test (function harnesses)
    ret       \* its result, NoRet before it has run

vars == <<f, pc, call, err, pre, nSucc, budget, arg, ret>>

----------------------------------------------------------------------------
(* Bounds of the model. *)

MaxCoord == 3
MaxHeader == 3
MaxRows == 2
MaxColumns == 1
MaxData == 1
MaxSuffix == 2
MaxCacheID == 2
MaxReg == 2
MaxCalls == 2
MaxFreshCalls == 3

----------------------------------------------------------------------------
(* Token strings. *)

Letters == <<"A", "B", "C", "D", "E">>
Digits == <<"1", "2", "3", "4", "5">>

Range(s) == {s[i] : i \in 1..Len(s)}

Min(a, b) == IF a <= b THEN a ELSE b
Max(a, b) == IF a >= b THEN a ELSE b

NoRet == [none |-> TRUE]

\* The position of the first t in s, 0 if there is none.
IndexOfToken(s, t) ==
    IF t \in Range(s)
    THEN CHOOSE i \in 1..Len(s) : s[i] = t /\ \A j \in 1..(i - 1) : s[j] # t
    ELSE 0

\* strings.Split(s, sep)
RECURSIVE Split(_, _)
RECURSIVE SplitAt(_, _, _)
SplitAt(s, sep, i) ==
    IF i = 0 THEN <<s>>
    ELSE <<SubSeq(s, 1, i - 1)>> \o Split(SubSeq(s, i + 1, Len(s)), sep)

Split(s, sep) == SplitAt(s, sep, IndexOfToken(s, sep))

\* strings.Replace(s, old, "", -1)
Replace(s, old) == SelectSeq(s, LAMBDA t : t # old)

CoordinatesToCellName(col, row) == <<Letters[col], Digits[row]>>

CellNameToCoordinates(cell) ==
    IF Len(cell) = 2 /\ cell[1] \in Range(Letters) /\ cell[2] \in Range(Digits)
    THEN [err |-> "", col |-> IndexOfToken(Letters, cell[1]),
          row |-> IndexOfToken(Digits, cell[2])]
    ELSE [err |-> "cannot convert cell to coordinates", col |-> 0, row |-> 0]

AreaOfCells(a, b) ==
    IF a.err # "" THEN [err |-> a.err, c |-> <<>>]
    ELSE IF b.err # "" THEN [err |-> b.err, c |-> <<>>]
    ELSE [err |-> "", c |-> <<a.col, a.row, b.col, b.row>>]

AreaOfParts(rng) ==
    IF Len(rng) # 2
    THEN [err |-> "cannot convert cell to coordinates", c |-> <<>>]
    ELSE AreaOfCells(CellNameToCoordinates(rng[1]), CellNameToCoordinates(rng[2]))

areaRefToCoordinates(ref) == AreaOfParts(Split(ref, ":"))

----------------------------------------------------------------------------
(* Range Resolver. *)

\* Lines 156-164 with the two axes swapped together.
CorrectAreaRotate(name, x1, y1, x2, y2) ==
    IF x2 < x1 THEN [name |-> name, c |-> <<x2, y2, x1, y1>>, err |-> ""]
    ELSE [name |-> name, c |-> <<x1, y1, x2, y2>>, err |-> ""]

\* Lines 156-164: each axis is swapped on its own.
CorrectArea(name, x1, y1, x2, y2) ==
    [name |-> name,
     c |-> <<IF x2 < x1 THEN x2 ELSE x1,
             IF y2 < y1 THEN y2 ELSE y1,
             IF x2 < x1 THEN x1 ELSE x2,
             IF y2 < y1 THEN y1 ELSE y2>>,
     err |-> ""]

\* Lines 148-164.
AdjustCoordinates(name, coordinates) ==
    IF coordinates.err # ""
    THEN [name |-> name, c |-> <<>>, err |-> coordinates.err]
    ELSE IF coordinates.c[1] = coordinates.c[3] /\ coordinates.c[2] = coordinates.c[4]
    THEN [name |-> name, c |-> <<>>, err |-> "parameter is invalid"]
    ELSE CorrectArea(name, coordinates.c[1], coordinates.c[2],
                     coordinates.c[3], coordinates.c[4])

\* Lines 143-147.
AdjustParts(rng) ==
    IF Len(rng) # 2
    THEN [name |-> <<>>, c |-> <<>>, err |-> "parameter is invalid"]
    ELSE AdjustCoordinates(rng[1], areaRefToCoordinates(Replace(rng[2], "$")))

adjustRange(rangeStr) ==
    IF Len(rangeStr) < 1
    THEN [name |-> <<>>, c |-> <<>>, err |-> "parameter is required"]
    ELSE AdjustParts(Split(rangeStr, "!"))

----------------------------------------------------------------------------
(* Part paths and the stores of the File. *)

Path(dir, base, n, ext) == [dir |-> dir, base |-> base, n |-> n, ext |-> ext]

PivotTablePart(n) == Path("xl/pivotTables/", "pivotTable", n, ".xml")
PivotCachePart(n) == Path("xl/pivotCache/", "pivotCacheDefinition", n, ".xml")
PivotTableRelsPart(n) == Path("xl/pivotTables/_rels/", "pivotTable", n, ".xml.rels")
SheetPart(n) == Path("xl/worksheets/", "sheet", n, ".xml")
WorkbookRels == Path("xl/_rels/", "workbook", 0, ".xml.rels")

\* strings.Contains(k, pat) for a pattern that is a directory followed by the
\* start of a file name: the pattern occurs in k only at k's start.
Contains(k, patDir, patBase) == k.dir = patDir /\ k.base = patBase

\* strings.Replace(p, "..", "xl", -1) on a path that starts with "../".
ReplaceDotDot(p) ==
    [p EXCEPT !.dir = CASE p.dir = "../pivotTables/" -> "xl/pivotTables/"
                        [] p.dir = "../pivotCache/" -> "xl/pivotCache/"
                        [] OTHER -> p.dir]

\* "xl/worksheets/_rels/" + strings.TrimPrefix(p, "xl/worksheets/") + ".rels"
SheetRelsPath(p) ==
    [p EXCEPT !.dir = IF p.dir = "xl/worksheets/" THEN "xl/worksheets/_rels/"
                      ELSE "xl/worksheets/_rels/" \o p.dir,
              !.ext = p.ext \o ".rels"]

\* trimSheetName drops the characters a sheet name may not hold; of the
\* tokens of this model only ":" is one.
trimSheetName(name) == Replace(name, ":")

saveFileList(file, name, content) ==
    [file EXCEPT !.XLSX = (name :> content) @@ file.XLSX,
                 !.saved = Append(file.saved, name)]

RECURSIVE MaxID(_)
MaxID(rels) ==
    IF rels = <<>> THEN 0 ELSE Max(Head(rels).ID, MaxID(Tail(rels)))

AppendRel(file, relPath, relType, target, rels, rID) ==
    [file |-> [file EXCEPT !.Relationships =
                   (relPath :> Append(rels, [ID |-> rID, Type |-> relType,
                                             Target |-> target]))
                   @@ file.Relationships],
     rID |-> rID]

AddRelsTo(file, relPath, relType, target, rels) ==
    AppendRel(file, relPath, relType, target, rels, MaxID(rels) + 1)

addRels(file, relPath, relType, target) ==
    AddRelsTo(file, relPath, relType, target,
              IF relPath \in DOMAIN file.Relationships
              THEN file.Relationships[relPath] ELSE <<>>)

AddOverride(file, partName) ==
    IF partName \in Range(file.ContentTypes) THEN file
    ELSE [file EXCEPT !.ContentTypes = Append(file.ContentTypes, partName)]

addContentTypePart(file, index, contentType) ==
    AddOverride(file, IF contentType = "pivotTable" THEN PivotTablePart(index)
                      ELSE PivotCachePart(index))

ReadSheet(file, name) ==
    IF name \notin DOMAIN file.sheetMap
    THEN [err |-> "sheet is not exist", ws |-> NoRet]
    ELSE [err |-> "", ws |-> file.Sheet[file.sheetMap[name]]]

workSheetReader(file, sheet) == ReadSheet(file, trimSheetName(sheet))

CellValue(r, xy) ==
    IF r.err # "" THEN [err |-> r.err, v |-> ""]
    ELSE IF r.ws.cellErr # "" THEN [err |-> r.ws.cellErr, v |-> ""]
    ELSE IF xy.err # "" THEN [err |-> xy.err, v |-> ""]
    ELSE IF <<xy.col, xy.row>> \in DOMAIN r.ws.cells
    THEN [err |-> "", v |-> r.ws.cells[<<xy.col, xy.row>>]]
    ELSE [err |-> "", v |-> ""]

GetCellValue(file, sheet, cell) ==
    CellValue(workSheetReader(file, sheet), CellNameToCoordinates(cell))

----------------------------------------------------------------------------
(* Field Order Extractor and Field Index Resolver. *)

\* The loop of getPivotFieldsOrder (lines 174-181) from column col on; order
\* holds the names read so far, r is the cell read at col.
RECURSIVE OrderFrom(_, _, _, _, _)
RECURSIVE OrderStep(_, _, _, _, _, _)
OrderStep(file, dataSheet, coordinates, col, order, r) ==
    IF r.err # "" THEN [order |-> order, err |-> r.err]
    ELSE OrderFrom(file, dataSheet, coordinates, col + 1, Append(order, r.v))

OrderFrom(file, dataSheet, coordinates, col, order) ==
    IF col > coordinates[3] THEN [order |-> order, err |-> ""]
    ELSE OrderStep(file, dataSheet, coordinates, col, order,
                   GetCellValue(file, dataSheet,
                                CoordinatesToCellName(col, coordinates[2])))

OrderOfRange(file, r) ==
    IF r.err # ""
    THEN [order |-> <<>>, err |-> "parameter 'DataRange' parsing error"]
    ELSE OrderFrom(file, r.name, r.c, r.c[1], <<>>)

getPivotFieldsOrder(file, dataRange) == OrderOfRange(file, adjustRange(dataRange))

\* inStrSlice scanning a from (1-based) position i on; the Go index it
\* returns is 0-based.
RECURSIVE inStrSliceFrom(_, _, _)
inStrSliceFrom(a, x, i) ==
    IF i > Len(a) THEN -1
    ELSE IF x = a[i] THEN i - 1
    ELSE inStrSliceFrom(a, x, i + 1)

\* inStrSlice scanning from the end: the last match, not the first.
RECURSIVE inStrSliceLastFrom(_, _, _)
inStrSliceLastFrom(a, x, i) ==
    IF i < 1 THEN -1
    ELSE IF x = a[i] THEN i - 1
    ELSE inStrSliceLastFrom(a, x, i - 1)

inStrSliceLast(a, x) == inStrSliceLastFrom(a, x, Len(a))

inStrSlice(a, x) == inStrSliceFrom(a, x, 1)

\* The loop of getPivotFieldsIndex (lines 427-431) from field i on.
RECURSIVE IndexLoop(_, _, _, _)
RECURSIVE IndexStep(_, _, _, _, _)
IndexStep(fields, orders, i, pivotFieldsIndex, pos) ==
    IndexLoop(fields, orders, i + 1,
              IF pos # -1 THEN Append(pivotFieldsIndex, pos) ELSE pivotFieldsIndex)

IndexLoop(fields, orders, i, pivotFieldsIndex) ==
    IF i > Len(fields) THEN pivotFieldsIndex
    ELSE IndexStep(fields, orders, i, pivotFieldsIndex, inStrSlice(orders, fields[i]))

IndexInOrder(fields, o) ==
    IF o.err # "" THEN [idx |-> <<>>, err |-> o.err]
    ELSE [idx |-> IndexLoop(fields, o.order, 1, <<>>), err |-> ""]

getPivotFieldsIndex(file, fields, opt) ==
    IndexInOrder(fields, getPivotFieldsOrder(file, opt.DataRange))

----------------------------------------------------------------------------
(* Pivot Cache Builder. *)

\* Lines 196-221 without the saveFileList of line 220.
BuildPivotCacheUnsaved(file, pivotCacheXML, r, order) == file

\* Lines 196-221.
BuildPivotCache(file, pivotCacheXML, r, order) ==
    saveFileList(file, pivotCacheXML,
        [SaveData |-> FALSE,
         RefreshOnLoad |-> TRUE,
         Type |-> "worksheet",
         Ref |-> CoordinatesToCellName(r.c[1], r.c[2]) \o <<":">>
                 \o CoordinatesToCellName(r.c[3], r.c[4]),
         Sheet |-> r.name,
         CacheField |-> [i \in 1..Len(order) |->
                            [Name |-> order[i], SharedItems |-> 0]],
         Count |-> Len(order)])

\* Lines 188-195.
PivotCacheOf(file, pivotCacheXML, r, o) ==
    IF r.err # ""
    THEN [file |-> file, err |-> "parameter 'DataRange' parsing error"]
    ELSE IF o.err # "" THEN [file |-> file, err |-> o.err]
    ELSE [file |-> BuildPivotCache(file, pivotCacheXML, r, o.order), err |-> ""]

addPivotCache(file, pivotCacheID, pivotCacheXML, opt, ws) ==
    PivotCacheOf(file, pivotCacheXML, adjustRange(opt.DataRange),
                 getPivotFieldsOrder(file, opt.DataRange))

----------------------------------------------------------------------------
(* Pivot Table Builder. *)

AxisRow == [Axis |-> "axisRow", DataField |-> FALSE, Items |-> 1]
AxisCol == [Axis |-> "axisCol", DataField |-> FALSE, Items |-> 1]
DataOnly == [Axis |-> "", DataField |-> TRUE, Items |-> 0]
Unclassified == [Axis |-> "", DataField |-> FALSE, Items |-> 0]

\* Lines 360-390 with the Columns test ahead of the Rows test.
ClassifyColumnsFirst(opt, name) ==
    IF inStrSlice(opt.Columns, name) # -1 THEN AxisCol
    ELSE IF inStrSlice(opt.Rows, name) # -1 THEN AxisRow
    ELSE IF inStrSlice(opt.Data, name) # -1 THEN DataOnly
    ELSE Unclassified

\* Lines 360-390: the pivot field appended for one header name.
Classify(opt, name) ==
    IF inStrSlice(opt.Rows, name) # -1 THEN AxisRow
    ELSE IF inStrSlice(opt.Columns, name) # -1 THEN AxisCol
    ELSE IF inStrSlice(opt.Data, name) # -1 THEN DataOnly
    ELSE Unclassified

\* The loop of addPivotFields (lines 359-391) from header position i on.
RECURSIVE FieldsLoop(_, _, _, _)
FieldsLoop(order, opt, i, pivotField) ==
    IF i > Len(order) THEN pivotField
    ELSE FieldsLoop(order, opt, i + 1, Append(pivotField, Classify(opt, order[i])))

FieldsOfOrder(opt, o) ==
    IF o.err # "" THEN [PivotField |-> <<>>, err |-> o.err]
    ELSE [PivotField |-> FieldsLoop(o.order, opt, 1, <<>>), err |-> ""]

addPivotFields(file, opt) ==
    FieldsOfOrder(opt, getPivotFieldsOrder(file, opt.DataRange))

ColFieldsOf(r) ==
    IF r.err # "" THEN [Has |-> TRUE, Field |-> <<>>, err |-> r.err]
    ELSE [Has |-> TRUE, Field |-> r.idx, err |-> ""]

\* pt.ColFields stays nil (Has is FALSE) when opt.Columns is empty.
addPivotColFields(file, opt) ==
    IF Len(opt.Columns) = 0 THEN [Has |-> FALSE, Field |-> <<>>, err |-> ""]
    ELSE ColFieldsOf(getPivotFieldsIndex(file, opt.Columns, opt))

NoTable == [none |-> TRUE]

\* Lines 233-267 and the assignments of lines 276-309.
TableDefinition(cacheID, pivotTableID, r, pf, rowFieldsIndex, cf, dataFieldsIndex) ==
    [Name |-> pivotTableID,
     CacheID |-> cacheID,
     DataCaption |-> "Values",
     Ref |-> CoordinatesToCellName(r.c[1], r.c[2]) \o <<":">>
             \o CoordinatesToCellName(r.c[3], r.c[4]),
     PivotFields |-> pf.PivotField,
     PivotFieldsCount |-> Len(pf.PivotField),
     RowFields |-> rowFieldsIndex.idx,
     HasColFields |-> cf.Has,
     ColFields |-> cf.Field,
     DataFields |-> dataFieldsIndex.idx]

\* Lines 311-313.
SavePivotTable(file, pivotTableXML, pt) ==
    [file |-> saveFileList(file, pivotTableXML, pt), pt |-> pt, err |-> ""]

\* The early returns of addPivotTable, in the order of the code.
PivotTableOf(file, cacheID, pivotTableID, pivotTableXML, r, pf, rowFieldsIndex, cf, dataFieldsIndex) ==
    IF r.err # ""
    THEN [file |-> file, pt |-> NoTable,
          err |-> "parameter 'PivotTableRange' parsing error"]
    ELSE IF pf.err # "" THEN [file |-> file, pt |-> NoTable, err |-> pf.err]
    ELSE IF rowFieldsIndex.err # ""
    THEN [file |-> file, pt |-> NoTable, err |-> rowFieldsIndex.err]
    ELSE IF cf.err # "" THEN [file |-> file, pt |-> NoTable, err |-> cf.err]
    ELSE IF dataFieldsIndex.err # ""
    THEN [file |-> file, pt |-> NoTable, err |-> dataFieldsIndex.err]
    ELSE SavePivotTable(file, pivotTableXML,
             TableDefinition(cacheID, pivotTableID, r, pf, rowFieldsIndex, cf,
                             dataFieldsIndex))

addPivotTable(file, cacheID, pivotTableID, pivotTableXML, opt) ==
    PivotTableOf(file, cacheID, pivotTableID, pivotTableXML,
                 adjustRange(opt.PivotTableRange),
                 addPivotFields(file, opt),
                 getPivotFieldsIndex(file, opt.Rows, opt),
                 addPivotColFields(file, opt),
                 getPivotFieldsIndex(file, opt.Data, opt))

----------------------------------------------------------------------------
(* Resource Allocator / Registrar. *)

\* A count whose pattern is too wide: every part under xl/pivotTables/ or
\* xl/pivotCache/.
countPivotTablesLoose(file) ==
    Cardinality({k \in DOMAIN file.XLSX : k.dir = "xl/pivotTables/"
                                          \/ k.dir = "xl/pivotCache/"})

countPivotTables(file) ==
    Cardinality({k \in DOMAIN file.XLSX :
                    Contains(k, "xl/pivotTables/", "pivotTable")})

countPivotCache(file) ==
    Cardinality({k \in DOMAIN file.XLSX :
                    Contains(k, "xl/pivotCache/", "pivotCacheDefinition")})

\* The loop of addWorkbookPivotCache (lines 442-446) from cache i on.
RECURSIVE MaxCacheLoop(_, _, _)
MaxCacheLoop(caches, i, cacheID) ==
    IF i > Len(caches) THEN cacheID
    ELSE MaxCacheLoop(caches, i + 1,
                      IF caches[i].CacheID > cacheID THEN caches[i].CacheID
                      ELSE cacheID)

\* Lines 448-452.
AppendPivotCache(file, RID, cacheID) ==
    [file |-> [file EXCEPT !.PivotCaches =
                   Append(file.PivotCaches, [CacheID |-> cacheID, RID |-> RID])],
     cacheID |-> cacheID]

\* The new CacheID taken from the number of caches, not from their maximum.
addWorkbookPivotCacheByCount(file, RID) ==
    AppendPivotCache(file, RID, Len(file.PivotCaches) + 1)

\* The new CacheID without the increment of line 447.
addWorkbookPivotCacheNoIncrement(file, RID) ==
    AppendPivotCache(file, RID, MaxCacheLoop(file.PivotCaches, 1, 1))

addWorkbookPivotCache(file, RID) ==
    AppendPivotCache(file, RID, MaxCacheLoop(file.PivotCaches, 1, 1) + 1)

----------------------------------------------------------------------------
(* Validation. *)

NilOpt == [nil |-> TRUE]

\* Lines 119-134.
ValidateRanges(file, d, t, r) ==
    IF d.err # ""
    THEN [dataSheet |-> NoRet, pivotTableSheetPath |-> NoRet,
          err |-> "parameter 'DataRange' parsing error"]
    ELSE IF t.err # ""
    THEN [dataSheet |-> NoRet, pivotTableSheetPath |-> NoRet,
          err |-> "parameter 'PivotTableRange' parsing error"]
    ELSE IF r.err # ""
    THEN [dataSheet |-> r.ws, pivotTableSheetPath |-> NoRet, err |-> r.err]
    ELSE IF trimSheetName(t.name) \notin DOMAIN file.sheetMap
    THEN [dataSheet |-> r.ws, pivotTableSheetPath |-> NoRet,
          err |-> "sheet is not exist"]
    ELSE [dataSheet |-> r.ws,
          pivotTableSheetPath |-> file.sheetMap[trimSheetName(t.name)],
          err |-> ""]

\* Lines 118 and 126: the data sheet is read under the name adjustRange gave.
ValidateData(file, d, t) == ValidateRanges(file, d, t, workSheetReader(file, d.name))

parseFormatPivotTableSet(file, opt) ==
    IF opt.nil
    THEN [dataSheet |-> NoRet, pivotTableSheetPath |-> NoRet,
          err |-> "parameter is required"]
    ELSE ValidateData(file, adjustRange(opt.DataRange),
                      adjustRange(opt.PivotTableRange))

----------------------------------------------------------------------------
(* Documents and options the calls are made on. *)

ExampleHeader == <<"Month", "Year", "Type", "Sales", "Region">>

FieldNames == {"Month", "Year"}
ListNames == FieldNames \cup {"NotAColumn"}

SeqsUpTo(S, n) == UNION {[1..k -> S] : k \in 0..n}

RECURSIVE SortedSeq(_)
SortedSeq(S) ==
    IF S = {} THEN <<>>
    ELSE <<CHOOSE x \in S : \A y \in S : x <= y>>
         \o SortedSeq(S \ {CHOOSE x \in S : \A y \in S : x <= y})

Worksheet(header, cellErr) ==
    [cellErr |-> cellErr,
     cells |-> [xy \in {<<c, 1>> : c \in 1..Len(header)} |-> header[xy[1]]]]

SheetNumbers == {1, 2, 3}

\* A workbook with the sheets Sheet1 (whose first row is header), Sheet2
\* (empty) and Sheet3 (its cells cannot be read), holding the pivot-table
\* parts tables, the pivot-cache parts caches and the registered CacheIDs reg.
File(header, tables, caches, reg) ==
    [XLSX |-> [k \in {SheetPart(n) : n \in SheetNumbers}
                     \cup {PivotTablePart(n) : n \in tables}
                     \cup {PivotTableRelsPart(n) : n \in tables}
                     \cup {PivotCachePart(n) : n \in caches} |-> [orig |-> k.base]],
     PivotCaches |-> [i \in 1..Len(reg) |->
                         [CacheID |-> reg[i], RID |-> Cardinality(SheetNumbers) + i]],
     Relationships |->
         (WorkbookRels :>
             [i \in 1..(Cardinality(SheetNumbers) + Len(reg)) |->
                 IF i <= Cardinality(SheetNumbers)
                 THEN [ID |-> i, Type |-> "worksheet",
                       Target |-> Path("worksheets/", "sheet", i, ".xml")]
                 ELSE [ID |-> i, Type |-> "pivotCacheDefinition",
                       Target |-> Path("pivotCache/", "pivotCacheDefinition",
                                       i - Cardinality(SheetNumbers), ".xml")]]),
     ContentTypes |->
         [i \in 1..Cardinality(tables) |-> PivotTablePart(SortedSeq(tables)[i])]
         \o [i \in 1..Cardinality(caches) |-> PivotCachePart(SortedSeq(caches)[i])],
     Sheet |-> (SheetPart(1) :> Worksheet(header, ""))
               @@ (SheetPart(2) :> Worksheet(<<>>, ""))
               @@ (SheetPart(3) :> Worksheet(header, "invalid merged cell")),
     sheetMap |-> (<<"Sheet1">> :> SheetPart(1))
                  @@ (<<"Sheet2">> :> SheetPart(2))
                  @@ (<<"Sheet3">> :> SheetPart(3)),
     saved |-> <<>>]

Cell(abs, x, y) ==
    IF abs THEN <<"$", Letters[x], "$", Digits[y]>> ELSE <<Letters[x], Digits[y]>>

RangeStr(sheet, abs, x1, y1, x2, y2) ==
    <<sheet, "!">> \o Cell(abs, x1, y1) \o <<":">> \o Cell(abs, x2, y2)

Opt(dataRange, pivotTableRange, rows, columns, data) ==
    [nil |-> FALSE, DataRange |-> dataRange, PivotTableRange |-> pivotTableRange,
     Rows |-> rows, Columns |-> columns, Data |-> data]

GoodData == RangeStr("Sheet1", TRUE, 1, 1, 5, 3)
GoodTable == RangeStr("Sheet2", TRUE, 1, 2, 3, 5)

\* Options AddPivotTable accepts.
GoodOpts ==
    {Opt(GoodData, GoodTable, <<"Month", "Year">>, <<"Type">>, <<"Sales">>),
     Opt(RangeStr("Sheet1", FALSE, 5, 3, 1, 1), RangeStr("Sheet1", FALSE, 3, 5, 1, 4),
         <<"Region">>, <<>>, <<"Sales">>)}

\* Strings adjustRange rejects: empty, no "!", two "!", no ":", no cell, one cell.
BadRanges ==
    {<<>>,
     <<"Sheet1">> \o Cell(FALSE, 1, 1) \o <<":">> \o Cell(FALSE, 2, 2),
     <<"Sheet1", "!", "Sheet2", "!">> \o Cell(FALSE, 1, 1) \o <<":">> \o Cell(FALSE, 2, 2),
     <<"Sheet1", "!">> \o Cell(FALSE, 1, 1),
     <<"Sheet1", "!", "A", ":", "B">>,
     RangeStr("Sheet1", TRUE, 1, 1, 1, 1)}

\* Options that fail in validation.
InvalidOpts ==
    {NilOpt}
    \cup {Opt(r, GoodTable, <<"Month">>, <<>>, <<"Sales">>) : r \in BadRanges}
    \cup {Opt(GoodData, r, <<"Month">>, <<>>, <<"Sales">>) : r \in BadRanges}
    \cup {Opt(RangeStr("Ghost", TRUE, 1, 1, 5, 3), GoodTable, <<"Month">>, <<>>, <<"Sales">>),
          Opt(GoodData, RangeStr("Ghost", TRUE, 1, 2, 3, 5), <<"Month">>, <<>>, <<"Sales">>)}

\* An option that passes validation and then fails reading the header row.
UnreadableOpts ==
    {Opt(RangeStr("Sheet3", TRUE, 1, 1, 5, 3), GoodTable, <<"Month">>, <<>>, <<"Sales">>)}

Opts == GoodOpts \cup InvalidOpts \cup UnreadableOpts

----------------------------------------------------------------------------
(* AddPivotTable, statement by statement. *)

NoCall ==
    [opt |-> NilOpt, dataSheet |-> NoRet, pivotTableSheetPath |-> NoRet,
     pivotTableID |-> 0, pivotCacheID |-> 0,
     workBookPivotCacheRID |-> 0, cacheID |-> 0]

sheetRelationshipsPivotTableXML(pivotTableID) ==
    Path("../pivotTables/", "pivotTable", pivotTableID, ".xml")

Return(e) ==
    /\ pc' = "returned"
    /\ err' = e
    /\ nSucc' = IF e = "" THEN nSucc + 1 ELSE nSucc

\* Lines 78-87 with the cache part reserved before the error is looked at.
ValidatedAfterReserving(opt, v) ==
    IF v.err # ""
    THEN /\ Return(v.err)
         /\ call' = NoCall
         /\ f' = saveFileList(f, PivotCachePart(countPivotCache(f) + 1), NoTable)
    ELSE /\ pc' = "addPivotCache"
         /\ call' = [NoCall EXCEPT
                       !.opt = opt,
                       !.dataSheet = v.dataSheet,
                       !.pivotTableSheetPath = v.pivotTableSheetPath,
                       !.pivotTableID = countPivotTables(f) + 1,
                       !.pivotCacheID = countPivotCache(f) + 1]
         /\ UNCHANGED <<f, err, nSucc>>

\* Lines 78-87, v being what parseFormatPivotTableSet returned.
Validated(opt, v) ==
    IF v.err # ""
    THEN /\ Return(v.err)
         /\ call' = NoCall
         /\ f' = f
    ELSE /\ pc' = "addPivotCache"
         /\ call' = [NoCall EXCEPT
                       !.opt = opt,
                       !.dataSheet = v.dataSheet,
                       !.pivotTableSheetPath = v.pivotTableSheetPath,
                       !.pivotTableID = countPivotTables(f) + 1,
                       !.pivotCacheID = countPivotCache(f) + 1]
         /\ UNCHANGED <<f, err, nSucc>>

\* Lines 75-87: validation, then the two file-suffix numbers.
Call(opt) ==
    /\ pc \in {"idle", "returned"}
    /\ budget > 0
    /\ budget' = budget - 1
    /\ pre' = f
    /\ Validated(opt, parseFormatPivotTableSet(f, opt))
    /\ UNCHANGED <<arg, ret>>

AddPivotTable == \E opt \in Opts : Call(opt)

\* Lines 89-91, r being what addPivotCache returned.
PivotCacheAdded(r) ==
    /\ f' = r.file
    /\ IF r.err # ""
       THEN Return(r.err)
       ELSE pc' = "addRelsWorkbook" /\ UNCHANGED <<err, nSucc>>

\* Lines 88-91.
StepAddPivotCache ==
    /\ pc = "addPivotCache"
    /\ PivotCacheAdded(addPivotCache(f, call.pivotCacheID,
                                     PivotCachePart(call.pivotCacheID),
                                     call.opt, call.dataSheet))
    /\ UNCHANGED <<call, pre, budget, arg, ret>>

RelsAdded(r) ==
    /\ f' = r.file
    /\ call' = [call EXCEPT !.workBookPivotCacheRID = r.rID]

\* Line 94.
StepAddRelsWorkbook ==
    /\ pc = "addRelsWorkbook"
    /\ RelsAdded(addRels(f, WorkbookRels, "pivotCacheDefinition",
                         Path("pivotCache/", "pivotCacheDefinition",
                              call.pivotCacheID, ".xml")))
    /\ pc' = "addWorkbookPivotCache"
    /\ UNCHANGED <<err, pre, nSucc, budget, arg, ret>>

WorkbookPivotCacheAdded(r) ==
    /\ f' = r.file
    /\ call' = [call EXCEPT !.cacheID = r.cacheID]

\* Line 95.
StepAddWorkbookPivotCache ==
    /\ pc = "addWorkbookPivotCache"
    /\ WorkbookPivotCacheAdded(addWorkbookPivotCache(f, call.workBookPivotCacheRID))
    /\ pc' = "addRelsPivotCache"
    /\ UNCHANGED <<err, pre, nSucc, budget, arg, ret>>

\* Lines 97-99.
StepAddRelsPivotCache ==
    /\ pc = "addRelsPivotCache"
    /\ f' = addRels(f, PivotTableRelsPart(call.pivotTableID), "pivotCacheDefinition",
                    Path("../pivotCache/", "pivotCacheDefinition",
                         call.pivotCacheID, ".xml")).file
    /\ pc' = "addPivotTable"
    /\ UNCHANGED <<call, err, pre, nSucc, budget, arg, ret>>

\* Lines 101-103, r being what addPivotTable returned.
PivotTableAdded(r) ==
    /\ f' = r.file
    /\ IF r.err # ""
       THEN Return(r.err)
       ELSE pc' = "addRelsSheet" /\ UNCHANGED <<err, nSucc>>

\* Lines 100-103.
StepAddPivotTable ==
    /\ pc = "addPivotTable"
    /\ PivotTableAdded(
           addPivotTable(f, call.cacheID, call.pivotTableID,
               ReplaceDotDot(sheetRelationshipsPivotTableXML(call.pivotTableID)),
               call.opt))
    /\ UNCHANGED <<call, pre, budget, arg, ret>>

\* Lines 104-105.
StepAddRelsSheet ==
    /\ pc = "addRelsSheet"
    /\ f' = addRels(f, SheetRelsPath(call.pivotTableSheetPath), "pivotTable",
                    sheetRelationshipsPivotTableXML(call.pivotTableID)).file
    /\ pc' = "addContentTypeTable"
    /\ UNCHANGED <<call, err, pre, nSucc, budget, arg, ret>>

\* Line 106.
StepAddContentTypeTable ==
    /\ pc = "addContentTypeTable"
    /\ f' = addContentTypePart(f, call.pivotTableID, "pivotTable")
    /\ pc' = "addContentTypeCache"
    /\ UNCHANGED <<call, err, pre, nSucc, budget, arg, ret>>

\* Lines 107-109.
StepAddContentTypeCache ==
    /\ pc = "addContentTypeCache"
    /\ f' = addContentTypePart(f, call.pivotCacheID, "pivotCache")
    /\ Return("")
    /\ UNCHANGED <<call, pre, budget, arg, ret>>

Next ==
    \/ AddPivotTable
    \/ StepAddPivotCache
    \/ StepAddRelsWorkbook
    \/ StepAddWorkbookPivotCache
    \/ StepAddRelsPivotCache
    \/ StepAddPivotTable
    \/ StepAddRelsSheet
    \/ StepAddContentTypeTable
    \/ StepAddContentTypeCache

InitCall(n) ==
    /\ pc = "idle"
    /\ call = NoCall
    /\ err = ""
    /\ pre = f
    /\ nSucc = 0
    /\ budget = n

\* A workbook as it may be opened.  Either it holds any pivot-table and
\* pivot-cache parts (dense or not), each cache registered under its suffix;
\* or it has any CacheIDs registered, with one table and one cache part each.
Init ==
    /\ \/ \E tables \in SUBSET (1..MaxSuffix), caches \in SUBSET (1..MaxSuffix) :
             f = File(ExampleHeader, tables, caches, SortedSeq(caches))
       \/ \E reg \in SeqsUpTo(0..MaxCacheID, MaxReg) :
             f = File(ExampleHeader, 1..Len(reg), 1..Len(reg), reg)
    /\ InitCall(MaxCalls)
    /\ arg = NoRet
    /\ ret = NoRet

Spec == Init /\ [][Next]_vars

\* A new workbook: no pivot-table part, no pivot-cache part, nothing registered.
InitFresh ==
    /\ f = File(ExampleHeader, {}, {}, <<>>)
    /\ InitCall(MaxFreshCalls)
    /\ arg = NoRet
    /\ ret = NoRet

SpecFresh == InitFresh /\ [][Next]_vars

----------------------------------------------------------------------------
(* adjustRange on its own: every "Sheet!Range" string over the coordinates  *)
(* 1..MaxCoord, with and without "$", and the strings that are rejected.    *)

Idle ==
    /\ f = File(ExampleHeader, {}, {}, <<>>)
    /\ InitCall(0)

\* arg.str is the string; for a well-formed one (wf) arg also keeps the sheet
\* and the corners it was written from.
RangeInputs ==
    {[str |-> RangeStr(s, a, x1, y1, x2, y2), wf |-> TRUE, sheet |-> s, abs |-> a,
      x1 |-> x1, y1 |-> y1, x2 |-> x2, y2 |-> y2] :
        s \in {"Sheet1", "Ghost"}, a \in BOOLEAN,
        x1 \in 1..MaxCoord, y1 \in 1..MaxCoord,
        x2 \in 1..MaxCoord, y2 \in 1..MaxCoord}
    \cup {[str |-> r, wf |-> FALSE, sheet |-> "", abs |-> FALSE,
           x1 |-> 0, y1 |-> 0, x2 |-> 0, y2 |-> 0] :
            r \in BadRanges \ {RangeStr("Sheet1", TRUE, 1, 1, 1, 1)}}

InitRange ==
    /\ Idle
    /\ arg \in RangeInputs
    /\ ret = NoRet

ApplyAdjustRange ==
    /\ ret = NoRet
    /\ ret' = adjustRange(arg.str)
    /\ UNCHANGED <<f, pc, call, err, pre, nSucc, budget, arg>>

NextRange == ApplyAdjustRange

SpecRange == InitRange /\ [][NextRange]_vars

----------------------------------------------------------------------------
(* addPivotTable on its own: every header row of 1..MaxHeader names and     *)
(* every Rows, Columns and Data list within the bounds, and the example of  *)
(* the documentation.                                                      *)

Headers == SeqsUpTo(FieldNames, MaxHeader) \ {<<>>}

\* The first row of Sheet1, from column A to the last filled cell.
HeaderOf(file) ==
    [i \in 1..Cardinality(DOMAIN file.Sheet[SheetPart(1)].cells) |->
        file.Sheet[SheetPart(1)].cells[<<i, 1>>]]

InitFields ==
    /\ pc = "idle" /\ call = NoCall /\ err = "" /\ nSucc = 0 /\ budget = 0
    /\ \/ \E h \in Headers, rows \in SeqsUpTo(ListNames, MaxRows),
            columns \in SeqsUpTo(ListNames, MaxColumns),
            data \in SeqsUpTo(ListNames, MaxData) :
             /\ f = File(h, {}, {}, <<>>)
             /\ arg = Opt(RangeStr("Sheet1", TRUE, 1, 1, Len(h), 2), GoodTable,
                          rows, columns, data)
       \/ /\ f = File(ExampleHeader, {}, {}, <<>>)
          /\ arg \in {Opt(GoodData, GoodTable, <<"Month", "Year">>, <<"Type">>,
                          <<"Sales">>),
                      Opt(GoodData, GoodTable, <<"Year", "Sales">>, <<>>,
                          <<"NotAColumn">>)}
    /\ pre = f
    /\ ret = NoRet

TableReturned(r) ==
    /\ f' = r.file
    /\ ret' = r.pt

BuildPivotTable ==
    /\ ret = NoRet
    /\ TableReturned(addPivotTable(f, 1, 1, PivotTablePart(1), arg))
    /\ UNCHANGED <<pc, call, err, pre, nSucc, budget, arg>>

NextFields == BuildPivotTable

SpecFields == InitFields /\ [][NextFields]_vars

----------------------------------------------------------------------------
(* Properties. *)

\* The part paths saveFileList was called with since the call started.
Written == {f.saved[i] : i \in (Len(pre.saved) + 1)..Len(f.saved)}

\* The last call made has returned nil.
Succeeded == pc = "returned" /\ err = ""

\* The parts of file that lie directly in directory dir.
PartsIn(file, dir) == {k \in DOMAIN file.XLSX : k.dir = dir}

CacheIDs(caches) == {caches[i].CacheID : i \in 1..Len(caches)}

SetMax(S) == CHOOSE m \in S : \A x \in S : x <= m

DistinctIDs(caches) ==
    \A i, j \in 1..Len(caches) : i # j => caches[i].CacheID # caches[j].CacheID

IsPrefix(s, t) == Len(s) <= Len(t) /\ \A i \in 1..Len(s) : s[i] = t[i]

RelsAt(file, p) == IF p \in DOMAIN file.Relationships THEN file.Relationships[p] ELSE <<>>

NewEntry == f.PivotCaches[Len(f.PivotCaches)]

\* C1: from a workbook without pivot parts, the k-th call that returns nil
\* has saved exactly pivotTable<k>.xml and pivotCacheDefinition<k>.xml, a call
\* that returns an error has saved nothing, and so between calls the
\* pivot-table and pivot-cache parts are numbered 1..k with no gap.
C1_DenseSuffixes ==
    /\ Succeeded =>
          /\ Written = {PivotTablePart(nSucc), PivotCachePart(nSucc)}
          /\ Len(f.saved) = Len(pre.saved) + 2
    /\ (pc = "returned" /\ err # "") => Written = {}
    /\ pc \in {"idle", "returned"} =>
          /\ PartsIn(f, "xl/pivotTables/") = {PivotTablePart(k) : k \in 1..nSucc}
          /\ PartsIn(f, "xl/pivotCache/") = {PivotCachePart(k) : k \in 1..nSucc}

\* Two calls have succeeded and one in between has failed.
C1_Witness == Succeeded /\ nSucc = 2 /\ budget = MaxFreshCalls - 3

\* C2 as claimed: with at least one cache registered, the entry a successful
\* call appends has CacheID = (the largest CacheID registered before) + 1,
\* and that value is the one returned and the table definition's CacheID.
C2_MaxPlusOne ==
    (Succeeded /\ Len(pre.PivotCaches) >= 1) =>
        /\ Len(f.PivotCaches) = Len(pre.PivotCaches) + 1
        /\ NewEntry.CacheID = SetMax(CacheIDs(pre.PivotCaches)) + 1
        /\ call.cacheID = NewEntry.CacheID
        /\ f.XLSX[PivotTablePart(call.pivotTableID)].CacheID = NewEntry.CacheID

\* C2 as amended: the appended CacheID is max(1, the largest CacheID
\* registered before) + 1, so it is the largest + 1 unless only CacheID 0 was
\* registered, and then it is 2; it is the value returned and the table
\* definition's CacheID.
C2_MaxOrOnePlusOne ==
    (Succeeded /\ Len(pre.PivotCaches) >= 1) =>
        /\ Len(f.PivotCaches) = Len(pre.PivotCaches) + 1
        /\ NewEntry.CacheID = Max(1, SetMax(CacheIDs(pre.PivotCaches))) + 1
        /\ call.cacheID = NewEntry.CacheID
        /\ f.XLSX[PivotTablePart(call.pivotTableID)].CacheID = NewEntry.CacheID

\* A call has succeeded on a registry of several entries, 0 among them.
C2_Witness ==
    /\ Succeeded
    /\ Len(pre.PivotCaches) >= 2
    /\ 0 \in CacheIDs(pre.PivotCaches)
    /\ NewEntry.CacheID = SetMax(CacheIDs(pre.PivotCaches)) + 1

\* C3 as claimed: a successful call saves its two parts at paths the workbook
\* did not hold before, and leaves every part it held as it was.
C3_NewPartsOnly ==
    Succeeded =>
        /\ Written \cap DOMAIN pre.XLSX = {}
        /\ \A p \in DOMAIN pre.XLSX : f.XLSX[p] = pre.XLSX[p]

ValidationErrors ==
    {"parameter is required", "parameter 'DataRange' parsing error",
     "parameter 'PivotTableRange' parsing error", "sheet is not exist"}

\* C4: every option that is nil, has a DataRange or PivotTableRange that is
\* empty, lacks the single "!", does not parse or is one cell, or names a
\* missing sheet is rejected by the validation; and a call the validation
\* has rejected leaves the whole File (parts, cache registry, relationships,
\* content types) as it was.
C4_FailedValidationNoMutation ==
    /\ \A opt \in InvalidOpts : parseFormatPivotTableSet(f, opt).err \in ValidationErrors
    /\ (pc = "returned" /\ err \in ValidationErrors) =>
          /\ f = pre
          /\ Cardinality(DOMAIN f.XLSX) = Cardinality(DOMAIN pre.XLSX)
          /\ Written = {}

\* A call naming a missing sheet has failed after an earlier call succeeded.
C4_Witness == pc = "returned" /\ err = "sheet is not exist" /\ nSucc = 1

Registered ==
    \/ f.Relationships # pre.Relationships
    \/ f.PivotCaches # pre.PivotCaches
    \/ f.ContentTypes # pre.ContentTypes

CacheBuilt == PivotCachePart(call.pivotCacheID) \in Written

TableBuilt == PivotTablePart(call.pivotTableID) \in Written

\* C8 as claimed: no relationship, cache-registry entry or content-type
\* override is added before both the cache part and the table part are saved.
C8_RegisterAfterBothBuilt == Registered => (CacheBuilt /\ TableBuilt)

\* C8 as amended: nothing is registered before the cache part is saved; the
\* workbook relationship, the cache-registry entry and the table-to-cache
\* relationship are added after that and before the table part is saved;
\* the sheet relationship and the content-type overrides are added only
\* after both parts are saved; a call that returns an error has registered
\* nothing.
C8_RegisterAroundTable ==
    /\ Registered => CacheBuilt
    /\ TableBuilt =>
          /\ Len(RelsAt(f, WorkbookRels)) = Len(RelsAt(pre, WorkbookRels)) + 1
          /\ Len(f.PivotCaches) = Len(pre.PivotCaches) + 1
          /\ Len(RelsAt(f, PivotTableRelsPart(call.pivotTableID)))
               = Len(RelsAt(pre, PivotTableRelsPart(call.pivotTableID))) + 1
    /\ (\/ f.ContentTypes # pre.ContentTypes
        \/ \E n \in SheetNumbers :
              RelsAt(f, SheetRelsPath(SheetPart(n)))
                # RelsAt(pre, SheetRelsPath(SheetPart(n))))
          => (CacheBuilt /\ TableBuilt)
    /\ (pc = "returned" /\ err # "") => ~Registered

\* The cache is registered and the table part is about to be built.
C8_Witness ==
    /\ pc = "addPivotTable"
    /\ Len(f.PivotCaches) = Len(pre.PivotCaches) + 1
    /\ ~TableBuilt

\* C9: no step removes or changes a registered entry, and a registry whose
\* CacheIDs are pairwise distinct stays so.
C9_RegistryGrowsDistinct ==
    [][/\ IsPrefix(f.PivotCaches, f'.PivotCaches)
       /\ DistinctIDs(f.PivotCaches) => DistinctIDs(f'.PivotCaches)]_vars

\* Two calls have succeeded and the registry holds distinct CacheIDs.
C9_Witness ==
    /\ Succeeded
    /\ nSucc = 2
    /\ Len(f.PivotCaches) >= 3
    /\ DistinctIDs(f.PivotCaches)

Tag(pivotField) ==
    CASE pivotField.Axis = "axisRow" -> "row"
      [] pivotField.Axis = "axisCol" -> "column"
      [] pivotField.DataField -> "data"
      [] OTHER -> "none"

\* C5: the table definition holds one pivot field per header column, in
\* header order, tagged row if the name is in Rows, else column if it is in
\* Columns, else data if it is in Data, else unclassified.
C5_FieldsByPriority ==
    ret # NoRet =>
        /\ Len(ret.PivotFields) = Len(HeaderOf(pre))
        /\ ret.PivotFieldsCount = Len(HeaderOf(pre))
        /\ \A i \in 1..Len(HeaderOf(pre)) :
              Tag(ret.PivotFields[i]) =
                  IF HeaderOf(pre)[i] \in Range(arg.Rows) THEN "row"
                  ELSE IF HeaderOf(pre)[i] \in Range(arg.Columns) THEN "column"
                  ELSE IF HeaderOf(pre)[i] \in Range(arg.Data) THEN "data"
                  ELSE "none"
        /\ (/\ HeaderOf(pre) = ExampleHeader
            /\ arg.Rows = <<"Month", "Year">>
            /\ arg.Columns = <<"Type">>
            /\ arg.Data = <<"Sales">>)
              => [i \in 1..5 |-> Tag(ret.PivotFields[i])]
                   = <<"row", "row", "column", "data", "none">>

\* A header with a repeated name that is both in Rows and in Columns.
C5_Witness ==
    /\ ret # NoRet
    /\ \E i, j \in 1..Len(HeaderOf(pre)) :
          /\ i < j
          /\ HeaderOf(pre)[i] = HeaderOf(pre)[j]
          /\ HeaderOf(pre)[i] \in Range(arg.Rows) \cap Range(arg.Columns)

\* What C6 expects for the requested names: those found in header h, in the
\* order requested, each as the 0-based position of its first occurrence.
FirstPositions(names, h) ==
    [i \in 1..Len(SelectSeq(names, LAMBDA x : x \in Range(h))) |->
        (CHOOSE p \in 1..Len(h) :
            /\ h[p] = SelectSeq(names, LAMBDA x : x \in Range(h))[i]
            /\ \A q \in 1..(p - 1) : h[q] # h[p]) - 1]

\* C6: RowFields, ColFields and DataFields, which getPivotFieldsIndex gives
\* for Rows, Columns and Data, hold the first positions of the requested
\* names, in the order requested, names absent from the header left out.
C6_FirstPositionsInOrder ==
    ret # NoRet =>
        /\ ret.RowFields = FirstPositions(arg.Rows, HeaderOf(pre))
        /\ ret.DataFields = FirstPositions(arg.Data, HeaderOf(pre))
        /\ ret.HasColFields => ret.ColFields = FirstPositions(arg.Columns, HeaderOf(pre))
        /\ (HeaderOf(pre) = ExampleHeader /\ arg.Rows = <<"Year", "Sales">>)
              => ret.RowFields = <<1, 3>>
        /\ arg.Data = <<"NotAColumn">> => ret.DataFields = <<>>

\* The example: [Year, Sales] and [NotAColumn] against the five-name header.
C6_Witness ==
    /\ ret # NoRet
    /\ HeaderOf(pre) = ExampleHeader
    /\ arg.Rows = <<"Year", "Sales">>
    /\ arg.Data = <<"NotAColumn">>

\* C7: for a string written Sheet!corner:corner, adjustRange fails exactly
\* when the corners are the same cell, and else gives the sheet name and
\* (min x, min y, max x, max y); so x1 <= x2, y1 <= y2, and the string with
\* the corners exchanged gives the same.
C7_PerAxisNormal ==
    (ret # NoRet /\ arg.wf) =>
        /\ (ret.err # "") <=> (arg.x1 = arg.x2 /\ arg.y1 = arg.y2)
        /\ ret.err = "" =>
              /\ ret.name = <<arg.sheet>>
              /\ ret.c = <<Min(arg.x1, arg.x2), Min(arg.y1, arg.y2),
                           Max(arg.x1, arg.x2), Max(arg.y1, arg.y2)>>
              /\ ret.c[1] <= ret.c[3] /\ ret.c[2] <= ret.c[4]
        /\ ret = adjustRange(RangeStr(arg.sheet, arg.abs, arg.x2, arg.y2,
                                      arg.x1, arg.y1))

\* Corners given right-to-left and top-to-bottom: only the x axis is swapped.
C7_Witness ==
    /\ ret # NoRet
    /\ arg.wf
    /\ arg.x1 > arg.x2
    /\ arg.y1 < arg.y2
    /\ ret.err = ""

\* C10 as claimed: every index in RowFields is that of a pivot field tagged
\* row, every index in ColFields that of one tagged column, every index in
\* DataFields that of one marked as data field.
C10_IndexListsAgree ==
    ret # NoRet =>
        /\ \A x \in Range(ret.RowFields) : ret.PivotFields[x + 1].Axis = "axisRow"
        /\ \A x \in Range(ret.ColFields) : ret.PivotFields[x + 1].Axis = "axisCol"
        /\ \A x \in Range(ret.DataFields) : ret.PivotFields[x + 1].DataField

====
